---- MODULE Spec2Model ----
(***************************************************************************)
(* Model of the service worker src/sw.js: the install and activate         *)
(* handlers, and the fetch handler with its five routes.  Every promise    *)
(* the code leaves pending (a cache lookup, a network fetch, the detached  *)
(* caches.open / cache.put chain) is a position of the handler, so the     *)
(* interleavings of concurrent handlers and of their detached writes are   *)
(* the interleavings of the actions below.                                 *)
(***************************************************************************)
EXTENDS Naturals, Sequences, FiniteSets, TLC

\* Number of requests intercepted in one run of the model.
MaxRequests == 2

\* ------------------------------------------------------------------------
\* Constants of the program

CACHE_NAME == "salahdaily-v1"

\* The generation left behind by the previously installed version.
OLD_CACHE_NAME == "salahdaily-v0"

PRECACHE_URLS ==
  << "./", "./index.html", "./masjid.html", "./salahdaily_icon.png",
     "./favicon.ico", "./icons/icon-192.png", "./icons/icon-512.png",
     "./icons/icon-maskable-192.png", "./icons/icon-maskable-512.png",
     "./icons/apple-touch-icon.png" >>

\* Host the worker script is served from (the scope is its root).
ORIGIN_HOST == "salahdaily.example"

\* ------------------------------------------------------------------------
\* String helpers (String.prototype.endsWith / includes)

EndsWith(s, suffix) ==
  /\ Len(s) >= Len(suffix)
  /\ SubSeq(s, Len(s) - Len(suffix) + 1, Len(s)) = suffix

Includes(s, part) ==
  \E i \in 1..(Len(s) + 1) :
    /\ i + Len(part) - 1 <= Len(s)
    /\ SubSeq(s, i, i + Len(part) - 1) = part

\* new URL(rel, scope): "./x" resolved against the root scope of the origin.
Resolve(rel) ==
  [hostname |-> ORIGIN_HOST, pathname |-> SubSeq(rel, 2, Len(rel))]

PrecacheKeys == { Resolve(PRECACHE_URLS[i]) : i \in 1..Len(PRECACHE_URLS) }

\* ------------------------------------------------------------------------
\* Request classification: the if-chain of the fetch listener, in its order

\* A plausible slip: the suffix test of the analytics hosts left out.
IsBypassHostExact(url) == url.hostname = "gc.zgo.at"

IsBypassHost(url) ==
  url.hostname = "gc.zgo.at" \/ EndsWith(url.hostname, ".goatcounter.com")

IsFontHost(url) == url.hostname = "fonts.gstatic.com"

IsCssHost(url) == url.hostname = "fonts.googleapis.com"

IsNetworkFirstPath(url) ==
  EndsWith(url.pathname, ".csv") \/ Includes(url.pathname, "/latest/")

\* A plausible slip: the path test moved in front of the host tests.
ClassifyPathFirst(url) ==
  IF IsNetworkFirstPath(url) THEN "networkFirst"
  ELSE IF IsBypassHost(url) THEN "bypass"
  ELSE IF IsFontHost(url) THEN "cacheFirst"
  ELSE IF IsCssHost(url) THEN "swrCss"
  ELSE "swrDefault"

Classify(url) ==
  IF IsBypassHost(url) THEN "bypass"
  ELSE IF IsFontHost(url) THEN "cacheFirst"
  ELSE IF IsCssHost(url) THEN "swrCss"
  ELSE IF IsNetworkFirstPath(url) THEN "networkFirst"
  ELSE "swrDefault"

\* The requests the controlled pages issue in the model.
Requests ==
  { [hostname |-> "gc.zgo.at",             pathname |-> "/count.js"],
    [hostname |-> "stats.goatcounter.com", pathname |-> "/latest/hits.csv"],
    [hostname |-> "goatcounter.com",       pathname |-> "/count"],
    [hostname |-> "fonts.gstatic.com",     pathname |-> "/latest/amiri.csv"],
    [hostname |-> "fonts.googleapis.com",  pathname |-> "/latest/css2"],
    [hostname |-> ORIGIN_HOST,             pathname |-> "/data/times.csv"],
    [hostname |-> ORIGIN_HOST,             pathname |-> "/latest/quba.png"],
    [hostname |-> ORIGIN_HOST,             pathname |-> "/index.html"] }

\* ------------------------------------------------------------------------
\* Responses and the cache storage

\* The absence of a Response (undefined).
Undefined == [src |-> "undefined", seq |-> 0, status |-> 0]

\* HTTP statuses the network answers with.
Statuses == {200, 404}

NetResponse(h, status) == [src |-> "net", seq |-> h, status |-> status]

PrecacheResponse == [src |-> "precache", seq |-> 0, status |-> 200]

OldResponse == [src |-> "old", seq |-> 0, status |-> 200]

VARIABLES
  phase,             \* lifecycle position of the worker
  caches,            \* the CacheStorage: caches in creation order
  skipWaitingCalled, \* self.skipWaiting() has been invoked
  claimed,           \* self.clients.claim() has been invoked
  toDelete,          \* keys whose caches.delete() is still pending
  deleteFailed,      \* some caches.delete() rejected
  handlers,          \* one record per intercepted request
  latest             \* per URL, the handler whose fetch succeeded last (0: none)

vars == << phase, caches, skipWaitingCalled, claimed, toDelete, deleteFailed,
           handlers, latest >>

CacheNames(cs) == { cs[i].name : i \in 1..Len(cs) }

\* caches.open(name): the cache of that name, created last if absent.
Open(cs, name) ==
  IF name \in CacheNames(cs) THEN cs
  ELSE Append(cs, [name |-> name, entries |-> <<>>])

\* cache.put(request, response) on the cache called name.
Put(cs, name, url, resp) ==
  [i \in 1..Len(cs) |->
     IF cs[i].name = name
     THEN [cs[i] EXCEPT !.entries = (url :> resp) @@ @]
     ELSE cs[i]]

\* caches.delete(name)
Delete(cs, name) == SelectSeq(cs, LAMBDA c : c.name # name)

\* The entry of url in the cache called name (Undefined when there is none).
Entry(cs, name, url) ==
  IF \E i \in 1..Len(cs) : cs[i].name = name /\ url \in DOMAIN cs[i].entries
  THEN LET i == CHOOSE j \in 1..Len(cs) :
                  cs[j].name = name /\ url \in DOMAIN cs[j].entries
       IN  cs[i].entries[url]
  ELSE Undefined

RECURSIVE MatchFrom(_, _, _)
MatchFrom(cs, i, url) ==
  IF i > Len(cs) THEN Undefined
  ELSE IF url \in DOMAIN cs[i].entries THEN cs[i].entries[url]
  ELSE MatchFrom(cs, i + 1, url)

\* caches.match(request): the first hit over all caches, in creation order.
Match(cs, url) == MatchFrom(cs, 1, url)

\* ------------------------------------------------------------------------
\* What the page that issued the request gets

Pending == [kind |-> "pending", resp |-> Undefined, from |-> "none"]

\* A Response, read from the cache storage or received from the network.
Responded(resp, from) == [kind |-> "response", resp |-> resp, from |-> from]

\* The promise given to respondWith rejected.
Rejected == [kind |-> "rejected", resp |-> Undefined, from |-> "none"]

\* The promise given to respondWith resolved with undefined: a network error.
NoResponse == [kind |-> "undefined", resp |-> Undefined, from |-> "none"]

\* The browser's own fetch of a request the worker let through failed.
NetworkError == [kind |-> "networkError", resp |-> Undefined, from |-> "none"]

Failures == {"rejected", "undefined", "networkError"}

\* ------------------------------------------------------------------------
\* The fetch listener, one operator per callback

\* A plausible variant: the stale-while-revalidate routes starting their
\* fetch in the listener itself, beside the lookup.
NewHandlerEagerFetch(url) ==
  LET route == Classify(url) IN
  [ url         |-> url,
    route       |-> route,
    respondWith |-> route # "bypass",
    lookup      |-> IF route \in {"cacheFirst", "swrCss", "swrDefault"}
                    THEN "pending" ELSE "none",
    cached      |-> Undefined,
    net         |-> IF route = "cacheFirst" THEN "none" ELSE "pending",
    fetches     |-> IF route \in {"networkFirst", "swrCss", "swrDefault"}
                    THEN 1 ELSE 0,
    netResp     |-> Undefined,
    result      |-> Pending,
    write       |-> "none",
    prior       |-> FALSE ]

\* The synchronous part of the listener: classify, then start the route.
NewHandler(url) ==
  LET route == Classify(url) IN
  [ url         |-> url,
    route       |-> route,
    respondWith |-> route # "bypass",
    lookup      |-> IF route \in {"cacheFirst", "swrCss", "swrDefault"}
                    THEN "pending" ELSE "none",
    cached      |-> Undefined,
    net         |-> IF route \in {"bypass", "networkFirst"}
                    THEN "pending" ELSE "none",
    fetches     |-> IF route = "networkFirst" THEN 1 ELSE 0,
    netResp     |-> Undefined,
    result      |-> Pending,
    write       |-> "none",
    prior       |-> FALSE ]

\* A plausible slip: the cache-first route putting the entry it found back
\* into the cache.
CacheFirstLookupRewrite(r, found) ==
  IF found # Undefined
  THEN [r EXCEPT !.lookup = "done", !.cached = found, !.netResp = found,
                 !.write = "opening",
                 !.result = Responded(found, "cache")]
  ELSE [r EXCEPT !.lookup = "done", !.cached = found,
                 !.net = "pending", !.fetches = @ + 1]

\* A plausible slip: the cache-first route revalidating on a hit.
CacheFirstRevalidate(r, found) ==
  [r EXCEPT !.lookup = "done", !.cached = found,
            !.net = "pending", !.fetches = @ + 1,
            !.result = IF found # Undefined
                       THEN Responded(found, "cache") ELSE @]

\* caches.match(...).then(cached => ...) of the cache-first route
CacheFirstLookup(r, found) ==
  IF found # Undefined
  THEN [r EXCEPT !.lookup = "done", !.cached = found,
                 !.result = Responded(found, "cache")]
  ELSE [r EXCEPT !.lookup = "done", !.cached = found,
                 !.net = "pending", !.fetches = @ + 1]

\* A plausible slip: the cached response returned only once the fetch has
\* settled (return fetchPromise.then(() => cached)).
SwrLookupAwaitFetch(r, found) ==
  [r EXCEPT !.lookup = "done", !.cached = found,
            !.net = "pending", !.fetches = @ + 1]

\* caches.match(...).then(cached => ...) of the two stale-while-revalidate
\* routes: the fetch is issued in the callback, cached || fetchPromise
SwrLookup(r, found) ==
  [r EXCEPT !.lookup = "done", !.cached = found,
            !.net = "pending", !.fetches = @ + 1,
            !.result = IF found # Undefined
                       THEN Responded(found, "cache") ELSE @]

\* A plausible slip: the network-first route without its fallback.
NetworkFirstNoFallback(r, found) ==
  [r EXCEPT !.lookup = "done", !.cached = found, !.result = NoResponse]

\* .catch(() => caches.match(event.request)) of the network-first route
NetworkFirstFallback(r, found) ==
  [r EXCEPT !.lookup = "done", !.cached = found,
            !.result = IF found # Undefined
                       THEN Responded(found, "cache") ELSE NoResponse]

OnLookup(r, found) ==
  CASE r.route = "cacheFirst"   -> CacheFirstLookup(r, found)
    [] r.route = "networkFirst" -> NetworkFirstFallback(r, found)
    [] OTHER                    -> SwrLookup(r, found)

\* The rejection of caches.match(event.request): the .then callback is
\* skipped, so the cache-first and stale-while-revalidate routes issue no
\* fetch, and no route has a handler after the lookup; the promise given to
\* respondWith rejects.
OnLookupReject(r) == [r EXCEPT !.lookup = "rejected", !.result = Rejected]

\* A request let through: the page gets what the network layer returns.
BypassFetched(r, resp) ==
  [r EXCEPT !.net = "ok", !.netResp = resp,
            !.result = Responded(resp, "network")]

\* A plausible slip: the put awaited before the response is returned
\* (return caches.open(...).then(cache => cache.put(...)).then(() => response)).
StoreThenReturn(r, resp) ==
  [r EXCEPT !.net = "ok", !.netResp = resp, !.write = "opening"]

\* A plausible slip: only ok responses stored (if (response.ok) ...).
StoreOkAndReturn(r, resp) ==
  [r EXCEPT !.net = "ok", !.netResp = resp,
            !.write = IF resp.status = 200 THEN "opening" ELSE @,
            !.result = Responded(resp, "network")]

\* fetch(...).then(response => { clone; caches.open(...).then(put); return
\* response }) of the cache-first and network-first routes
StoreAndReturn(r, resp) ==
  [r EXCEPT !.net = "ok", !.netResp = resp, !.write = "opening",
            !.result = Responded(resp, "network")]

\* A plausible slip: the response returned without the detached write.
SwrFetchedNoStore(r, resp) ==
  [r EXCEPT !.net = "ok", !.netResp = resp,
            !.result = IF r.cached # Undefined
                       THEN @ ELSE Responded(resp, "network")]

\* A plausible slip: the entry refreshed only when the lookup missed.
SwrFetchedNoRefresh(r, resp) ==
  [r EXCEPT !.net = "ok", !.netResp = resp,
            !.write = IF r.cached # Undefined THEN @ ELSE "opening",
            !.result = IF r.cached # Undefined
                       THEN @ ELSE Responded(resp, "network")]

\* The same callback in the stale-while-revalidate routes, where the page
\* has its response already when the lookup found one.
SwrFetched(r, resp) ==
  [r EXCEPT !.net = "ok", !.netResp = resp, !.write = "opening",
            !.result = IF r.cached # Undefined
                       THEN @ ELSE Responded(resp, "network")]

OnFetchOk(r, resp) ==
  CASE r.route = "bypass"                       -> BypassFetched(r, resp)
    [] r.route \in {"cacheFirst", "networkFirst"} -> StoreAndReturn(r, resp)
    [] OTHER                                    -> SwrFetched(r, resp)

\* A plausible slip: a failed fetch issued again.
OnFetchFailRetry(r) == [r EXCEPT !.net = "pending", !.fetches = @ + 1]

\* A plausible slip: the default route without its .catch(() => cached).
OnFetchFailNoCatch(r) ==
  CASE r.route = "bypass" ->
         [r EXCEPT !.net = "failed", !.result = NetworkError]
    [] r.route = "networkFirst" ->
         [r EXCEPT !.net = "failed", !.lookup = "pending"]
    [] OTHER ->
         [r EXCEPT !.net = "failed",
                   !.result = IF r.cached # Undefined THEN @ ELSE Rejected]

\* The rejection of fetch(), route by route.
OnFetchFail(r) ==
  CASE r.route = "bypass" ->
         [r EXCEPT !.net = "failed", !.result = NetworkError]
    [] r.route = "cacheFirst" ->
         [r EXCEPT !.net = "failed", !.result = Rejected]
    [] r.route = "swrCss" ->
         [r EXCEPT !.net = "failed",
                   !.result = IF r.cached # Undefined THEN @ ELSE Rejected]
    [] r.route = "networkFirst" ->
         [r EXCEPT !.net = "failed", !.lookup = "pending"]
    [] OTHER ->
         [r EXCEPT !.net = "failed",
                   !.result = IF r.cached # Undefined THEN @ ELSE NoResponse]

\* ------------------------------------------------------------------------
\* Initial state: the worker has been registered and its install event is
\* about to run, on an origin that held no cache or that of an older version.

OldCache ==
  [ name    |-> OLD_CACHE_NAME,
    entries |-> [u \in PrecacheKeys \cup
                       { q \in Requests :
                           q.pathname \in {"/latest/amiri.csv",
                                           "/data/times.csv"} }
                 |-> OldResponse] ]

Init ==
  /\ phase = "installing"
  /\ caches \in { <<>>, << OldCache >> }
  /\ skipWaitingCalled = FALSE
  /\ claimed = FALSE
  /\ toDelete = {}
  /\ deleteFailed = FALSE
  /\ handlers = <<>>
  /\ latest = [u \in Requests |-> 0]

\* ------------------------------------------------------------------------
\* install

\* caches.open(CACHE_NAME) resolves
InstallOpen ==
  /\ phase = "installing"
  /\ phase' = "precaching"
  /\ caches' = Open(caches, CACHE_NAME)
  /\ UNCHANGED << skipWaitingCalled, claimed, toDelete, deleteFailed,
                  handlers, latest >>

\* caches.open(CACHE_NAME) rejects: no cache is created, both .then
\* callbacks are skipped and the promise given to waitUntil rejects
InstallOpenFail ==
  /\ phase = "installing"
  /\ phase' = "failed"
  /\ UNCHANGED << caches, skipWaitingCalled, claimed, toDelete,
                  deleteFailed, handlers, latest >>

\* A plausible slip: the URLs added one by one without awaiting them all, so
\* that only the first is stored when the chain goes on.
AddAllFirstOnly(cs) ==
  [i \in 1..Len(cs) |->
     IF cs[i].name = CACHE_NAME
     THEN [cs[i] EXCEPT !.entries =
             (Resolve(PRECACHE_URLS[1]) :> PrecacheResponse) @@ @]
     ELSE cs[i]]

\* The entries cache.addAll(PRECACHE_URLS) writes, all at once.
AddAll(cs) ==
  [i \in 1..Len(cs) |->
     IF cs[i].name = CACHE_NAME
     THEN [cs[i] EXCEPT !.entries =
             [u \in PrecacheKeys |-> PrecacheResponse] @@ @]
     ELSE cs[i]]

\* cache.addAll(PRECACHE_URLS) resolves: every URL was fetched and stored
InstallAddAll ==
  /\ phase = "precaching"
  /\ phase' = "precached"
  /\ caches' = AddAll(caches)
  /\ UNCHANGED << skipWaitingCalled, claimed, toDelete, deleteFailed,
                  handlers, latest >>

\* cache.addAll rejects (a fetch failed or answered a status that is not
\* ok): nothing is stored, the .then(() => self.skipWaiting()) is skipped
\* and the promise given to waitUntil rejects
InstallFail ==
  /\ phase = "precaching"
  /\ phase' = "failed"
  /\ UNCHANGED << caches, skipWaitingCalled, claimed, toDelete,
                  deleteFailed, handlers, latest >>

\* A plausible slip: the rejection swallowed (.catch(() => {})) in front of
\* .then(() => self.skipWaiting()), so that the chain goes on.
InstallSwallow ==
  /\ phase = "failed"
  /\ phase' = "precached"
  /\ UNCHANGED << caches, skipWaitingCalled, claimed, toDelete,
                  deleteFailed, handlers, latest >>

\* The promise given to waitUntil has rejected: the installation fails and
\* the worker is discarded, never activated
InstallDiscard ==
  /\ phase = "failed"
  /\ phase' = "redundant"
  /\ UNCHANGED << caches, skipWaitingCalled, claimed, toDelete,
                  deleteFailed, handlers, latest >>

\* .then(() => self.skipWaiting()): the promise given to waitUntil resolves
InstallSkipWaiting ==
  /\ phase = "precached"
  /\ phase' = "installed"
  /\ skipWaitingCalled' = TRUE
  /\ UNCHANGED << caches, claimed, toDelete, deleteFailed, handlers, latest >>

\* ------------------------------------------------------------------------
\* activate

\* A plausible slip: the filter inverted (key === CACHE_NAME).
ActivateKeysInverted ==
  /\ phase = "installed"
  /\ phase' = "activating"
  /\ toDelete' = { k \in CacheNames(caches) : k = CACHE_NAME }
  /\ UNCHANGED << caches, skipWaitingCalled, claimed, deleteFailed,
                  handlers, latest >>

\* caches.keys() resolves; a caches.delete is issued for every other key
ActivateKeys ==
  /\ phase = "installed"
  /\ phase' = "activating"
  /\ toDelete' = { k \in CacheNames(caches) : k # CACHE_NAME }
  /\ UNCHANGED << caches, skipWaitingCalled, claimed, deleteFailed,
                  handlers, latest >>

\* caches.keys() rejects: no caches.delete is issued and clients.claim is
\* skipped; the platform activates the worker all the same
ActivateKeysFail ==
  /\ phase = "installed"
  /\ phase' = "activated"
  /\ UNCHANGED << caches, skipWaitingCalled, claimed, toDelete,
                  deleteFailed, handlers, latest >>

\* A plausible slip: caches.delete(CACHE_NAME) in the map callback.
ActivateDeleteWrongKey(k) ==
  /\ phase = "activating"
  /\ k \in toDelete
  /\ toDelete' = toDelete \ {k}
  /\ caches' = Delete(caches, CACHE_NAME)
  /\ UNCHANGED << phase, skipWaitingCalled, claimed, deleteFailed,
                  handlers, latest >>

\* one caches.delete(key) resolves (after Promise.all has rejected on
\* another key, too)
ActivateDelete(k) ==
  /\ phase \in {"activating", "activated"}
  /\ k \in toDelete
  /\ toDelete' = toDelete \ {k}
  /\ caches' = Delete(caches, k)
  /\ UNCHANGED << phase, skipWaitingCalled, claimed, deleteFailed,
                  handlers, latest >>

\* one caches.delete(key) rejects
ActivateDeleteFail(k) ==
  /\ phase \in {"activating", "activated"}
  /\ k \in toDelete
  /\ toDelete' = toDelete \ {k}
  /\ deleteFailed' = TRUE
  /\ UNCHANGED << phase, caches, skipWaitingCalled, claimed, handlers,
                  latest >>

\* A plausible slip: clients.claim() not chained after Promise.all.
ActivateClaimEarly ==
  /\ phase = "activating"
  /\ phase' = "activated"
  /\ claimed' = TRUE
  /\ UNCHANGED << caches, skipWaitingCalled, toDelete, deleteFailed,
                  handlers, latest >>

\* Promise.all(...) resolves: .then(() => self.clients.claim())
ActivateClaim ==
  /\ phase = "activating"
  /\ toDelete = {}
  /\ ~deleteFailed
  /\ phase' = "activated"
  /\ claimed' = TRUE
  /\ UNCHANGED << caches, skipWaitingCalled, toDelete, deleteFailed,
                  handlers, latest >>

\* Promise.all(...) rejects: clients.claim is skipped; the platform
\* activates the worker all the same
ActivateReject ==
  /\ phase = "activating"
  /\ deleteFailed
  /\ phase' = "activated"
  /\ UNCHANGED << caches, skipWaitingCalled, claimed, toDelete,
                  deleteFailed, handlers, latest >>

\* ------------------------------------------------------------------------
\* fetch

\* A handler for the same URL has already given its page a response that
\* came from the network (history, kept with the request for the properties).
ReturnedFromNetwork(url) ==
  \E g \in DOMAIN handlers :
    /\ handlers[g].url = url
    /\ handlers[g].result.kind = "response"
    /\ handlers[g].result.from = "network"

\* A controlled page issues a request: the listener runs to its return.
Intercept(url) ==
  /\ phase = "activated"
  /\ Len(handlers) < MaxRequests
  /\ handlers' = Append(handlers, [NewHandler(url) EXCEPT
                                     !.prior = ReturnedFromNetwork(url)])
  /\ UNCHANGED << phase, caches, skipWaitingCalled, claimed, toDelete,
                  deleteFailed, latest >>

\* caches.match(event.request) resolves
LookupSettle(h) ==
  /\ handlers[h].lookup = "pending"
  /\ handlers' = [handlers EXCEPT
                    ![h] = OnLookup(@, Match(caches, handlers[h].url))]
  /\ UNCHANGED << phase, caches, skipWaitingCalled, claimed, toDelete,
                  deleteFailed, latest >>

\* caches.match(event.request) rejects
LookupReject(h) ==
  /\ handlers[h].lookup = "pending"
  /\ handlers' = [handlers EXCEPT ![h] = OnLookupReject(@)]
  /\ UNCHANGED << phase, caches, skipWaitingCalled, claimed, toDelete,
                  deleteFailed, latest >>

\* fetch(event.request) resolves with a response, of any status
FetchOk(h, status) ==
  /\ handlers[h].net = "pending"
  /\ handlers' = [handlers EXCEPT
                    ![h] = OnFetchOk(@, NetResponse(h, status))]
  /\ latest' = [latest EXCEPT ![handlers[h].url] = h]
  /\ UNCHANGED << phase, caches, skipWaitingCalled, claimed, toDelete,
                  deleteFailed >>

\* fetch(event.request) rejects
FetchFail(h) ==
  /\ handlers[h].net = "pending"
  /\ handlers' = [handlers EXCEPT ![h] = OnFetchFail(@)]
  /\ UNCHANGED << phase, caches, skipWaitingCalled, claimed, toDelete,
                  deleteFailed, latest >>

\* The detached caches.open(CACHE_NAME) resolves
WriteOpen(h) ==
  /\ handlers[h].write = "opening"
  /\ handlers' = [handlers EXCEPT ![h].write = "putting"]
  /\ caches' = Open(caches, CACHE_NAME)
  /\ UNCHANGED << phase, skipWaitingCalled, claimed, toDelete,
                  deleteFailed, latest >>

\* The detached cache.put(event.request, clone) resolves
WritePut(h) ==
  /\ handlers[h].write = "putting"
  /\ handlers' = [handlers EXCEPT ![h].write = "done"]
  /\ caches' = Put(caches, CACHE_NAME, handlers[h].url, handlers[h].netResp)
  /\ UNCHANGED << phase, skipWaitingCalled, claimed, toDelete,
                  deleteFailed, latest >>

\* The detached open or put rejects: nobody handles the rejection
WriteFail(h) ==
  /\ handlers[h].write \in {"opening", "putting"}
  /\ handlers' = [handlers EXCEPT ![h].write = "failed"]
  /\ UNCHANGED << phase, caches, skipWaitingCalled, claimed, toDelete,
                  deleteFailed, latest >>

Lifecycle ==
  \/ InstallOpen
  \/ InstallAddAll
  \/ InstallFail
  \/ InstallDiscard
  \/ InstallSkipWaiting
  \/ ActivateKeys
  \/ \E k \in toDelete : ActivateDelete(k)
  \/ \E k \in toDelete : ActivateDeleteFail(k)
  \/ ActivateClaim
  \/ ActivateReject

\* Every promise a handler waits for settles in a step of its own.
Settle ==
  \/ \E h \in DOMAIN handlers : LookupSettle(h)
  \/ \E h \in DOMAIN handlers : \E status \in Statuses : FetchOk(h, status)
  \/ \E h \in DOMAIN handlers : FetchFail(h)
  \/ \E h \in DOMAIN handlers : WriteOpen(h)
  \/ \E h \in DOMAIN handlers : WritePut(h)

Serving ==
  \/ \E url \in Requests : Intercept(url)
  \/ Settle

\* The storage fails an open, a keys, a match or a put.
StorageFail ==
  \/ InstallOpenFail
  \/ ActivateKeysFail
  \/ \E h \in DOMAIN handlers : LookupReject(h)
  \/ \E h \in DOMAIN handlers : WriteFail(h)

Next ==
  \/ Lifecycle
  \/ Serving
  \/ StorageFail

Spec == Init /\ [][Next]_vars

\* ------------------------------------------------------------------------
\* Properties

H == DOMAIN handlers

\* Some cache of the storage holds an entry for url.
StoreHolds(cs, url) == \E i \in 1..Len(cs) : url \in DOMAIN cs[i].entries

\* The entries the storage holds for url.
StoredEntries(cs, url) ==
  { cs[i].entries[url] : i \in { j \in 1..Len(cs) : url \in DOMAIN cs[j].entries } }

AnalyticsHost(host) ==
  \/ host = "gc.zgo.at"
  \/ /\ Len(host) >= 16
     /\ SubSeq(host, Len(host) - 15, Len(host)) = ".goatcounter.com"

NetworkFirstPathname(path) ==
  \/ /\ Len(path) >= 4
     /\ SubSeq(path, Len(path) - 3, Len(path)) = ".csv"
  \/ \E i \in 1..Len(path) :
       i + 7 <= Len(path) /\ SubSeq(path, i, i + 7) = "/latest/"

\* C1: a request to gc.zgo.at or to a host ending with .goatcounter.com,
\* whatever its path, is let through: respondWith is not called, the handler
\* starts no cache lookup and no cache write, and the page's outcome is the
\* network layer's outcome, a failure included.
C1_BypassUntouched ==
  \A h \in H :
    AnalyticsHost(handlers[h].url.hostname) =>
      /\ ~handlers[h].respondWith
      /\ handlers[h].lookup = "none"
      /\ handlers[h].cached = Undefined
      /\ handlers[h].write = "none"
      /\ handlers[h].fetches = 0
      /\ handlers[h].net = "pending" => handlers[h].result = Pending
      /\ handlers[h].net = "ok" =>
           handlers[h].result = Responded(handlers[h].netResp, "network")
      /\ handlers[h].net = "failed" => handlers[h].result = NetworkError

\* A request to a suffix-matched analytics host, with a path of the
\* network-first kind, whose network fetch failed.
C1_Witness ==
  \E h \in H :
    /\ handlers[h].url.hostname = "stats.goatcounter.com"
    /\ handlers[h].net = "failed"
    /\ handlers[h].result = NetworkError

\* C2: the route of a request is decided by the first predicate that
\* matches, in the order analytics host, fonts.gstatic.com,
\* fonts.googleapis.com, path (.csv suffix or /latest/), default; and the
\* strategy that runs is that route's: a let-through request is not
\* answered, the cache-first and stale-while-revalidate routes look the
\* cache up before any fetch is issued, the network-first route fetches
\* before any lookup.
C2_Precedence ==
  \A h \in H :
    LET r    == handlers[h]
        host == r.url.hostname
        path == r.url.pathname
    IN  /\ AnalyticsHost(host) => r.route = "bypass"
        /\ ~AnalyticsHost(host) /\ host = "fonts.gstatic.com" =>
             r.route = "cacheFirst"
        /\ ~AnalyticsHost(host) /\ host = "fonts.googleapis.com" =>
             r.route = "swrCss"
        /\ /\ ~AnalyticsHost(host)
           /\ host \notin {"fonts.gstatic.com", "fonts.googleapis.com"}
           => r.route = IF NetworkFirstPathname(path)
                        THEN "networkFirst" ELSE "swrDefault"
        /\ r.respondWith <=> r.route # "bypass"
        /\ r.route \in {"cacheFirst", "swrCss", "swrDefault"} =>
             /\ r.lookup # "none"
             /\ r.lookup = "pending" => r.net = "none" /\ r.fetches = 0
        /\ r.route = "networkFirst" =>
             /\ r.fetches = 1
             /\ r.lookup # "none" => r.net = "failed"

\* A font-host request whose path ends with .csv and contains /latest/ was
\* served cache-first, and an analytics request with such a path was let
\* through.
C2_Witness ==
  /\ \E h \in H :
       /\ handlers[h].url.hostname = "fonts.gstatic.com"
       /\ NetworkFirstPathname(handlers[h].url.pathname)
       /\ handlers[h].result.from = "cache"
       /\ handlers[h].fetches = 0
  /\ \E h \in H :
       /\ handlers[h].url.hostname = "stats.goatcounter.com"
       /\ NetworkFirstPathname(handlers[h].url.pathname)
       /\ handlers[h].result.from = "network"

\* C3 as stated: when the fetch of a network-first request has failed and
\* the handler settles, the page gets a stored entry of that request if the
\* storage holds one, and a failure if it holds none.
C3_FallbackAlwaysServes ==
  [][ \A h \in H :
        /\ handlers[h].route = "networkFirst"
        /\ handlers[h].net = "failed"
        /\ handlers[h].result = Pending
        /\ handlers'[h].result # Pending
        => IF StoreHolds(caches, handlers[h].url)
           THEN /\ handlers'[h].result.kind = "response"
                /\ handlers'[h].result.from = "cache"
                /\ handlers'[h].result.resp
                     \in StoredEntries(caches, handlers[h].url)
           ELSE handlers'[h].result.kind \in Failures ]_vars

\* C3 amended: when the fetch of a network-first request has failed and the
\* fallback lookup resolves, the page gets a stored entry of that request if
\* the storage holds one, and no response if it holds none; when the
\* fallback lookup itself rejects, the page gets a rejection, whether the
\* storage holds an entry or not.  The handler settles in no other way.
C3_NetworkFirstFallback ==
  [][ \A h \in H :
        /\ handlers[h].route = "networkFirst"
        /\ handlers[h].net = "failed"
        => /\ handlers[h].lookup = "pending" /\ handlers'[h].lookup = "done"
              => IF StoreHolds(caches, handlers[h].url)
                 THEN /\ handlers'[h].result.kind = "response"
                      /\ handlers'[h].result.from = "cache"
                      /\ handlers'[h].result.resp
                           \in StoredEntries(caches, handlers[h].url)
                 ELSE handlers'[h].result = NoResponse
           /\ handlers[h].lookup = "pending" /\ handlers'[h].lookup = "rejected"
              => handlers'[h].result = Rejected
           /\ handlers'[h].result # handlers[h].result
              => /\ handlers[h].lookup = "pending"
                 /\ handlers'[h].lookup \in {"done", "rejected"} ]_vars

\* A network-first request whose fetch failed was answered with the entry
\* an earlier request for the same URL had written to the current cache.
C3_Witness ==
  \E h \in H : \E g \in H :
    /\ g # h
    /\ handlers[h].route = "networkFirst"
    /\ handlers[h].net = "failed"
    /\ handlers[g].write = "done"
    /\ handlers[g].url = handlers[h].url
    /\ handlers[h].result = Responded(handlers[g].netResp, "cache")
    /\ Entry(caches, CACHE_NAME, handlers[h].url) = handlers[g].netResp

\* C4: in the network-first route the storage is looked up only after the
\* fetch has failed; a fetch that resolves, with any status, gives the page
\* that response, starts a write, and the write, when it completes, leaves
\* that response as the request's entry of the current cache.
C4_NetworkFirstPrefersNetwork ==
  [][ \A h \in H :
        handlers'[h].route = "networkFirst" =>
          /\ handlers'[h].lookup # "none" => handlers'[h].net = "failed"
          /\ handlers'[h].net = "ok" =>
               /\ handlers'[h].netResp.src = "net"
               /\ handlers'[h].result
                    = Responded(handlers'[h].netResp, "network")
               /\ handlers'[h].write # "none"
               /\ handlers'[h].cached = Undefined
          /\ handlers[h].write = "putting" /\ handlers'[h].write = "done" =>
               Entry(caches', CACHE_NAME, handlers[h].url)
                 = handlers[h].netResp ]_vars

\* A network-first request got the 404 its fetch resolved with while the
\* current cache held another response for the same URL, which its write
\* then replaced.
C4_Witness ==
  \E h \in H : \E g \in H :
    /\ g # h
    /\ handlers[h].route = "networkFirst"
    /\ handlers[g].url = handlers[h].url
    /\ handlers[g].write = "done"
    /\ handlers[g].netResp.status = 200
    /\ handlers[h].prior
    /\ handlers[h].netResp.status = 404
    /\ handlers[h].result = Responded(handlers[h].netResp, "network")
    /\ handlers[h].write = "done"
    /\ Entry(caches, CACHE_NAME, handlers[h].url) = handlers[h].netResp

\* C5 as stated: a request to fonts.gstatic.com intercepted after a request
\* for the same URL has returned its network response issues no fetch and is
\* served from the storage.
C5_SecondNeverFetches ==
  \A h \in H :
    handlers[h].url.hostname = "fonts.gstatic.com" /\ handlers[h].prior =>
      /\ handlers[h].fetches = 0
      /\ handlers[h].result.kind # "pending" => handlers[h].result.from = "cache"

\* C5 amended: a request to fonts.gstatic.com whose cache lookup resolves
\* after the detached write of an earlier request for the same URL has
\* completed is served from the storage, and it issues no network fetch,
\* then or later; a lookup that rejects leaves the request rejected, also
\* without a fetch.
C5_SecondServedOnceWritten ==
  [][ \A h \in H :
        handlers[h].url.hostname = "fonts.gstatic.com" =>
          /\ /\ handlers[h].lookup = "pending"
             /\ handlers'[h].lookup = "done"
             /\ \E g \in H : /\ g # h
                             /\ handlers[g].url = handlers[h].url
                             /\ handlers[g].write = "done"
             => /\ handlers'[h].result.kind = "response"
                /\ handlers'[h].result.from = "cache"
                /\ handlers'[h].result.resp
                     \in StoredEntries(caches, handlers[h].url)
          /\ handlers'[h].lookup = "rejected" =>
               /\ handlers'[h].fetches = 0
               /\ handlers'[h].net = "none"
               /\ handlers'[h].result = Rejected
          /\ handlers[h].result.from = "cache" =>
               /\ handlers'[h].fetches = 0
               /\ handlers'[h].net = "none"
               /\ handlers'[h].result = handlers[h].result ]_vars

\* The second request, intercepted after the first had its network
\* response, was served the very response the first one wrote.
C5_Witness ==
  \E h \in H : \E g \in H :
    /\ g # h
    /\ handlers[h].url.hostname = "fonts.gstatic.com"
    /\ handlers[g].url = handlers[h].url
    /\ handlers[g].write = "done"
    /\ handlers[h].prior
    /\ handlers[h].result = Responded(handlers[g].netResp, "cache")
    /\ handlers[h].fetches = 0

\* C6: in the two stale-while-revalidate routes, when the lookup settles and
\* the storage holds an entry for the request, the page has that entry as
\* its response at once, while the handler's own fetch is still pending;
\* whatever that fetch does later (resolve, fail, never settle) leaves the
\* delivered response as it is.
C6_StaleServedAtOnce ==
  [][ \A h \in H :
        handlers[h].route \in {"swrCss", "swrDefault"} =>
          /\ /\ handlers[h].lookup = "pending"
             /\ handlers'[h].lookup = "done"
             /\ StoreHolds(caches, handlers[h].url)
             => /\ handlers'[h].result.kind = "response"
                /\ handlers'[h].result.from = "cache"
                /\ handlers'[h].result.resp
                     \in StoredEntries(caches, handlers[h].url)
                /\ handlers'[h].net = "pending"
          /\ handlers[h].result.from = "cache" =>
               handlers'[h].result = handlers[h].result ]_vars

\* A stylesheet request has been given the entry an earlier request wrote
\* while its own fetch is still pending.
C6_Witness ==
  \E h \in H : \E g \in H :
    /\ g # h
    /\ handlers[h].route = "swrCss"
    /\ handlers[g].url = handlers[h].url
    /\ handlers[g].write = "done"
    /\ handlers[h].net = "pending"
    /\ handlers[h].result = Responded(handlers[g].netResp, "cache")

SwrRoutes == {"swrCss", "swrDefault"}

\* Every handler for url has settled its fetch and its write.
Quiescent(url) ==
  \A h \in H :
    handlers[h].url = url =>
      /\ handlers[h].lookup # "pending"
      /\ handlers[h].net \in {"ok", "failed"}
      /\ handlers[h].write \in {"none", "done", "failed"}

\* C7 as stated: once the handlers of a stale-while-revalidate URL are all
\* through, the current cache holds the response of the fetch that settled
\* last.
C7_LatestFetchWins ==
  \A h \in H :
    /\ handlers[h].route \in SwrRoutes
    /\ Quiescent(handlers[h].url)
    /\ latest[handlers[h].url] = h
    => Entry(caches, CACHE_NAME, handlers[h].url) = handlers[h].netResp

\* C7 amended: a stale-while-revalidate handler whose fetch resolves starts a
\* detached write of the response it fetched.  The step that completes its
\* put leaves that response as the request's entry of the current cache; a
\* write that fails changes nothing in the storage, and one that never
\* completes leaves the entry as it was.  The entry changes in no other
\* step, so it is the response of the put that completed last, whatever the
\* order in which the fetches settled.
C7_StoreHoldsLastCompletedPut ==
  [][ \A h \in H :
        handlers[h].route \in SwrRoutes =>
          /\ handlers[h].net = "pending" /\ handlers'[h].net = "ok" =>
               /\ handlers'[h].write = "opening"
               /\ handlers'[h].netResp.src = "net"
               /\ caches' = caches
          /\ handlers[h].write = "putting" /\ handlers'[h].write = "done" =>
               Entry(caches', CACHE_NAME, handlers[h].url)
                 = handlers[h].netResp
          /\ handlers[h].write # "failed" /\ handlers'[h].write = "failed" =>
               caches' = caches
          /\ Entry(caches', CACHE_NAME, handlers[h].url)
               # Entry(caches, CACHE_NAME, handlers[h].url) =>
               \E g \in H :
                 /\ handlers[g].url = handlers[h].url
                 /\ handlers[g].write = "putting"
                 /\ handlers'[g].write = "done"
                 /\ Entry(caches', CACHE_NAME, handlers[h].url)
                      = handlers[g].netResp ]_vars

\* Two handlers of one stale-while-revalidate URL were in flight together;
\* both responses were written, and the entry left is the one of the fetch
\* that settled first.
C7_Witness ==
  \E h \in H : \E g \in H :
    /\ g # h
    /\ handlers[h].route \in SwrRoutes
    /\ handlers[g].url = handlers[h].url
    /\ handlers[h].write = "done"
    /\ handlers[g].write = "done"
    /\ latest[handlers[h].url] = g
    /\ Entry(caches, CACHE_NAME, handlers[h].url) = handlers[h].netResp

\* The lookup of handler h found no entry: the storage held none for its
\* request.
Missed(h) == handlers[h].lookup = "done" /\ handlers[h].cached = Undefined

\* C8 as stated: a default-route request whose lookup found no entry and
\* whose fetch resolved leaves an entry for the request in the current
\* cache, once its detached write has settled.
C8_StoredOnceFetched ==
  \A h \in H :
    /\ handlers[h].route = "swrDefault"
    /\ Missed(h)
    /\ handlers[h].net = "ok"
    /\ handlers[h].write \in {"done", "failed"}
    => Entry(caches, CACHE_NAME, handlers[h].url) # Undefined

\* C8 amended: a default-route request whose lookup finds no entry.  If its
\* fetch resolves, the page gets that response and a detached write of it is
\* started: the step that completes its put leaves the response as the
\* request's entry of the current cache, and a write that fails changes
\* nothing in the storage.  If its fetch fails, the page gets a failure, the
\* handler writes nothing, and the storage holds no entry for the request
\* as long as no other handler has written one.
C8_DefaultUncached ==
  /\ [][ \A h \in H :
           /\ handlers[h].route = "swrDefault"
           /\ handlers[h].lookup = "pending"
           /\ handlers'[h].lookup = "done"
           => (Missed(h)' <=> ~StoreHolds(caches, handlers[h].url)) ]_vars
  /\ [][ \A h \in H :
           handlers'[h].route = "swrDefault" /\ Missed(h)' =>
             /\ handlers'[h].net = "ok" =>
                  /\ handlers'[h].netResp.src = "net"
                  /\ handlers'[h].result
                       = Responded(handlers'[h].netResp, "network")
                  /\ handlers'[h].write # "none"
             /\ handlers[h].write = "putting" /\ handlers'[h].write = "done" =>
                  Entry(caches', CACHE_NAME, handlers[h].url)
                    = handlers[h].netResp
             /\ handlers[h].write # "failed" /\ handlers'[h].write = "failed" =>
                  caches' = caches
             /\ handlers'[h].net = "failed" =>
                  /\ handlers'[h].result = NoResponse
                  /\ handlers'[h].write = "none"
                  /\ (\A g \in DOMAIN handlers' :
                        handlers'[g].url = handlers'[h].url =>
                          handlers'[g].write \in {"none", "opening", "failed"})
                     => ~StoreHolds(caches', handlers'[h].url) ]_vars

\* One default-route request for an uncached URL got its network response
\* and left it in the current cache; another, for the same kind of URL, got
\* a failure while offline and left nothing.
C8_Witness ==
  /\ \E h \in H :
       /\ handlers[h].route = "swrDefault"
       /\ Missed(h)
       /\ handlers[h].result = Responded(handlers[h].netResp, "network")
       /\ handlers[h].write = "done"
       /\ Entry(caches, CACHE_NAME, handlers[h].url) = handlers[h].netResp
  /\ \E h \in H :
       /\ handlers[h].route = "swrDefault"
       /\ Missed(h)
       /\ handlers[h].net = "failed"
       /\ handlers[h].result = NoResponse

\* C9 as stated: in the cache-first and stale-while-revalidate routes the
\* promise given to respondWith never rejects, and a failed fetch reaches
\* the page as a failure only in the default and network-first routes.
C9_NeverRejected ==
  \A h \in H :
    handlers[h].respondWith =>
      /\ handlers[h].route \in {"cacheFirst", "swrCss", "swrDefault"} =>
           handlers[h].result.kind # "rejected"
      /\ handlers[h].net = "failed" /\ handlers[h].result.kind \in Failures =>
           /\ handlers[h].route \in {"swrDefault", "networkFirst"}
           /\ Missed(h)

\* C9 amended: when the lookup resolves, a failed fetch reaches the page as
\* a failure only when the lookup found no entry for the request, and then
\* in every route: as a rejection in the cache-first and stylesheet routes,
\* as a promise resolved with nothing in the default and network-first
\* routes; when the lookup found an entry, the page has that entry and the
\* failure is not surfaced.  When the lookup itself rejects, the page gets a
\* rejection in every route, and in the network-first route that is how the
\* failed fetch before it reaches the page.
C9_FailureOnlyWithoutEntry ==
  \A h \in H :
    handlers[h].respondWith =>
      /\ handlers[h].result.kind # "networkError"
      /\ handlers[h].lookup = "rejected" =>
           /\ handlers[h].result = Rejected
           /\ handlers[h].net = IF handlers[h].route = "networkFirst"
                                THEN "failed" ELSE "none"
      /\ handlers[h].lookup # "rejected" =>
           /\ handlers[h].result.kind \in Failures =>
                handlers[h].net = "failed" /\ Missed(h)
           /\ handlers[h].result.kind = "rejected" =>
                handlers[h].route \in {"cacheFirst", "swrCss"}
           /\ handlers[h].result.kind = "undefined" =>
                handlers[h].route \in {"swrDefault", "networkFirst"}
           /\ handlers[h].net = "failed" /\ Missed(h) =>
                handlers[h].result.kind \in Failures
           /\ handlers[h].net = "failed" /\ handlers[h].cached # Undefined =>
                handlers[h].result = Responded(handlers[h].cached, "cache")

\* A stylesheet request with no stored entry was rejected when its fetch
\* failed, and a cache-first request likewise.
C9_Witness ==
  /\ \E h \in H :
       /\ handlers[h].route = "swrCss"
       /\ handlers[h].net = "failed"
       /\ handlers[h].result = Rejected
  /\ \E h \in H :
       /\ handlers[h].route = "cacheFirst"
       /\ handlers[h].net = "failed"
       /\ handlers[h].result = Rejected

\* C10: once the install handler has invoked skipWaiting and signalled
\* completion, and ever after, the cache named CACHE_NAME exists and holds
\* an entry for every URL of the precache list; before the insertions have
\* succeeded skipWaiting has not been invoked.
C10_InstalledMeansPrecached ==
  /\ skipWaitingCalled \/ phase \in {"installed", "activating", "activated"} =>
       /\ CACHE_NAME \in CacheNames(caches)
       /\ \A i \in 1..Len(PRECACHE_URLS) :
            Entry(caches, CACHE_NAME,
                  [hostname |-> ORIGIN_HOST,
                   pathname |-> Tail(PRECACHE_URLS[i])]) # Undefined
  /\ phase \in {"installing", "precaching", "redundant"} => ~skipWaitingCalled
  /\ phase \in {"installed", "activating", "activated"} => skipWaitingCalled

\* The install handler has just signalled completion, on an origin that
\* still holds the older cache.
C10_Witness ==
  /\ phase = "installed"
  /\ skipWaitingCalled
  /\ Len(caches) = 2
  /\ Cardinality(DOMAIN caches[2].entries) = Len(PRECACHE_URLS)

\* The caches of other generations than the current one, in creation order.
OtherGenerations(cs) == SelectSeq(cs, LAMBDA c : c.name # CACHE_NAME)

\* C11: once cache.addAll (or the caches.open before it) has rejected, the
\* installation only fails:
\* skipWaiting is not invoked, the worker is discarded without being
\* activated (no activate step, no clients.claim, no request served), and
\* the caches of other generations are left as they were.
C11_FailedInstallTouchesNothing ==
  [][ /\ phase = "failed" => phase' \in {"failed", "redundant"}
      /\ phase = "redundant" => phase' = "redundant"
      /\ phase' \in {"failed", "redundant"} =>
           /\ ~skipWaitingCalled'
           /\ ~claimed'
           /\ toDelete' = {}
           /\ ~deleteFailed'
           /\ handlers' = <<>>
           /\ OtherGenerations(caches') = OtherGenerations(caches)
           /\ OtherGenerations(caches') \in { <<>>, << OldCache >> } ]_vars

\* The installation has failed on an origin that holds the cache of the
\* older version, which is intact.
C11_Witness ==
  /\ phase = "redundant"
  /\ ~skipWaitingCalled
  /\ Len(caches) = 2
  /\ caches[1] = OldCache
  /\ caches[2] = [name |-> CACHE_NAME, entries |-> <<>>]

\* C12: once the activate handler has completed (its chain has run to
\* clients.claim), and through every later request and detached write, the
\* storage holds exactly one cache, and its name is CACHE_NAME.
C12_OneGenerationAfterActivation ==
  claimed =>
    /\ phase = "activated"
    /\ Len(caches) = 1
    /\ caches[1].name = CACHE_NAME

\* The activate handler has completed and two requests have since written
\* their responses; the storage still holds the current cache only.
C12_Witness ==
  /\ claimed
  /\ Len(handlers) = MaxRequests
  /\ \A h \in H : handlers[h].write = "done"
  /\ CacheNames(caches) = {CACHE_NAME}

\* C13: clients.claim is invoked in a step in which no caches.delete is
\* pending, none has rejected and no cache of another generation exists;
\* when a caches.delete (or the caches.keys before it) has rejected,
\* clients.claim is never invoked.
C13_ClaimAfterPurge ==
  [][ /\ ~claimed /\ claimed' =>
           /\ phase = "activating"
           /\ toDelete = {}
           /\ ~deleteFailed
           /\ OtherGenerations(caches) = <<>>
           /\ caches' = caches
      /\ deleteFailed' => ~claimed'
      /\ toDelete' # {} => ~claimed'
      /\ phase = "activated" /\ ~claimed => ~claimed' ]_vars

\* A caches.delete rejected: the worker is active, has not claimed its
\* clients, and the older cache is still there.
C13_Witness ==
  /\ phase = "activated"
  /\ deleteFailed
  /\ ~claimed
  /\ OtherGenerations(caches) = << OldCache >>

\* C14 as stated: when the worker has activated over an older version, the
\* storage holds no entry at all until a request has written one.
C14_EmptyAfterActivation ==
  /\ claimed
  /\ \A h \in H : handlers[h].write # "done"
  => \A i \in 1..Len(caches) : DOMAIN caches[i].entries = {}

\* C14 amended: when the activate handler has completed, the older cache is
\* deleted entirely, and until a request has written an entry the storage
\* holds the current cache with exactly the entries of the precache list.
C14_OnlyPrecacheAfterActivation ==
  /\ claimed => OLD_CACHE_NAME \notin CacheNames(caches)
  /\ /\ claimed
     /\ \A h \in H : handlers[h].write # "done"
     => caches = << [ name    |-> CACHE_NAME,
                      entries |-> [u \in PrecacheKeys |-> PrecacheResponse] ] >>

\* The activate handler has completed and a request is being served from
\* the precached entries, before any request has written one.
C14_Witness ==
  /\ claimed
  /\ Len(caches) = 1
  /\ Cardinality(DOMAIN caches[1].entries) = Len(PRECACHE_URLS)
  /\ \E h \in H : handlers[h].result = Responded(PrecacheResponse, "cache")
  /\ \A h \in H : handlers[h].write # "done"

C16_AtMostOneFetch ==
  [][ \A h \in H :
        /\ handlers'[h].fetches <= 1
        /\ handlers'[h].fetches >= handlers[h].fetches
        /\ handlers[h].route = "bypass" => handlers'[h].fetches = 0
        /\ handlers[h].net \in {"ok", "failed"} =>
             /\ handlers'[h].net = handlers[h].net
             /\ handlers'[h].fetches = handlers[h].fetches ]_vars

\* A network-first request whose only fetch failed has been answered from
\* nothing, and a cache-first request has been answered without any fetch.
C16_Witness ==
  /\ \E h \in H :
       /\ handlers[h].route = "networkFirst"
       /\ handlers[h].net = "failed"
       /\ handlers[h].result = NoResponse
       /\ handlers[h].fetches = 1
  /\ \E h \in H :
       /\ handlers[h].route = "cacheFirst"
       /\ handlers[h].result.from = "cache"
       /\ handlers[h].fetches = 0

\* C17: in the four caching routes, as soon as the fetch has resolved the
\* page has its response (the network response, or the stored entry a
\* stale-while-revalidate lookup found), whatever the state of the detached
\* write: pending, completed or failed; and no step of the write changes
\* what a page has got.
C17_WriteNeverSeen ==
  [][ \A h \in H :
        /\ handlers'[h].route # "bypass" /\ handlers'[h].net = "ok" =>
             /\ handlers'[h].write \in {"opening", "putting", "done", "failed"}
             /\ handlers'[h].result
                  = IF handlers'[h].route \in SwrRoutes
                       /\ handlers'[h].cached # Undefined
                    THEN Responded(handlers'[h].cached, "cache")
                    ELSE Responded(handlers'[h].netResp, "network")
        /\ handlers'[h].write # handlers[h].write /\ handlers[h].write # "none" =>
             \A g \in H : handlers'[g].result = handlers[g].result ]_vars

\* The detached write of a cache-first request and that of a default-route
\* request have failed; both pages have their network responses.
C17_Witness ==
  /\ \E h \in H :
       /\ handlers[h].route = "cacheFirst"
       /\ handlers[h].write = "failed"
       /\ handlers[h].result = Responded(handlers[h].netResp, "network")
  /\ \E h \in H :
       /\ handlers[h].route = "swrDefault"
       /\ handlers[h].write = "failed"
       /\ handlers[h].result = Responded(handlers[h].netResp, "network")

\* C18: when the lookup of a cache-first request settles and the storage
\* holds an entry for it, the page gets a stored entry, and the handler
\* issues no fetch and starts no write, then or later: no step of that
\* handler changes the storage.
C18_CacheFirstHitIsReadOnly ==
  [][ \A h \in H :
        handlers[h].route = "cacheFirst" =>
          /\ /\ handlers[h].lookup = "pending"
             /\ handlers'[h].lookup = "done"
             /\ StoreHolds(caches, handlers[h].url)
             => /\ handlers'[h].result.from = "cache"
                /\ handlers'[h].result.resp
                     \in StoredEntries(caches, handlers[h].url)
                /\ caches' = caches
          /\ handlers'[h].result.from = "cache" =>
               /\ handlers'[h].net = "none"
               /\ handlers'[h].fetches = 0
               /\ handlers'[h].write = "none"
               /\ handlers'[h].netResp = Undefined ]_vars

\* A cache-first request has been answered with the entry of the current
\* cache, which is still that entry, and has fetched and written nothing.
C18_Witness ==
  \E h \in H :
    /\ handlers[h].route = "cacheFirst"
    /\ handlers[h].result.from = "cache"
    /\ handlers[h].result.resp.src = "net"
    /\ Entry(caches, CACHE_NAME, handlers[h].url) = handlers[h].result.resp
    /\ handlers[h].write = "none"
    /\ handlers[h].fetches = 0

\* C19: a response a handler read from the storage was never an entry of a
\* cache of another generation than CACHE_NAME.
C19_OnlyCurrentGeneration ==
  \A h \in H :
    handlers[h].result.from = "cache" => handlers[h].result.resp # OldResponse

====
